---- MODULE Spec2Model ----
(***************************************************************************)
(* The live streaming / event-routing layer of flask_app/app.py:           *)
(*   OutputInterceptor  (one for stdout, one for stderr)                   *)
(*   PipelineHandler    (one per run)                                      *)
(*   make_task_callback (the phase-transition callback of a run)           *)
(*   run_pipeline_streaming (the worker thread of a run)                   *)
(*   start_pipeline / stream (the HTTP handlers over active_runs)          *)
(* Every thread is a program counter; a step is one statement (or one      *)
(* critical section entry) of the source.                                  *)
(***************************************************************************)
EXTENDS Integers, Sequences, FiniteSets, TLC

\* ------------------------------------------------------------------ bounds
\* Writes the pipeline library makes on the worker thread during one kickoff
\* (Spec: one run from start to termination).
MaxWrites == 1
\* Times the pipeline library invokes the task callback beyond one per phase.
ExtraCallbacks == 1
\* Writes per run when two runs are started concurrently (SpecTwo).
MaxWritesTwo == 1
\* Writes and callback invocations of the run the handler is studied on
\* (SpecHandler).
MaxWritesHandler == 4
MaxCallbacksHandler == 2
\* Stream requests made and heartbeats one stream yields (SpecStream).
MaxStreams == 1
MaxHeartbeats == 1
\* Writes of the library and callback invocations that raise (SpecCallback).
MaxWritesCallback == 1
MaxCallbackRaises == 1
\* Writes of the library while the real streams break and recover (SpecWrite).
MaxWritesWrite == 2
\* Stream requests made for one run (SpecShared).
MaxStreamsLive == 2
\* Start requests (SpecStart).
MaxRequests == 2
\* Writes and callback invocations of the first of two runs (SpecLocks).
MaxWritesLocks == 1
MaxCallbacksLocks == 1
\* Writes of the library while another thread may unregister (SpecOther).
MaxWritesOther == 2

\* ------------------------------------------------------- program constants
\* len(PHASE_DEFS)
NumPhases == 7
REVIEW_MAX_ITERATIONS == 3
\* _flush keeps the last 4000 characters of the combined text.
TailCap == 4000
\* process flushes once the buffer holds 4 fragments.
FlushCount == 4

\* uuid4 values start can hand out; the last one is never handed out (an
\* identifier no run has).
RunIds == {1, 2}
UnknownRun == 0
\* What the reviewer may answer: whether the text holds the word APPROVED,
\* whether it holds NEEDS_REVISION, and the number after the first "score"
\* (-1: the text has no score). `of` is the version of the code reviewed.
Scores == {-1, 6, 7}
Verdicts ==
    [approved : BOOLEAN, needs_revision : BOOLEAN, score : Scores]
NoReview == [of |-> 0, text |-> [approved |-> FALSE, needs_revision |-> FALSE,
                                 score |-> -1]]
\* The start requests, and the record of one not yet answered.
Requests == 1..MaxRequests
NoResponse == [status |-> 0, data |-> [requirement |-> <<>>], run_id |-> 0]
\* The JSON bodies of start requests: without the key, with an empty text,
\* with blanks only, with a text between blanks, with a text.
Bodies ==
    { [other |-> <<"x">>], [requirement |-> <<>>], [requirement |-> <<" ">>],
      [requirement |-> <<" ", " ">>], [requirement |-> <<" ", "x", " ">>],
      [requirement |-> <<"x">>] }
Interceptors == {"stdout", "stderr"}
NoHandler == 0

\* -------------------------------------------------------------------- text
\* A text is a sequence of characters; a character is named by a string.
\* "ESC" is \x1b, "TL" "BL" "TR" "BR" "H" "V" are the box-drawing glyphs.
Digits == {"0", "1", "2", "3", "4", "5", "6", "7", "8", "9"}
Whitespace == {" "}

\* The marker a run's worker puts in what it writes.
Marker(r) == IF r = 1 THEN "a" ELSE "b"
Markers == {Marker(r) : r \in RunIds}

\* First position >= i of s whose character is not in [0-9;] (Len(s)+1: none).
RECURSIVE SkipParams(_, _)
SkipParams(s, i) ==
    IF i > Len(s) THEN i
    ELSE IF s[i] \in Digits \cup {";"} THEN SkipParams(s, i + 1)
    ELSE i

\* re.sub(r"\x1b\[[0-9;]*m", "", text)
RECURSIVE StripAnsi(_)
StripAnsi(s) ==
    IF s = <<>> THEN <<>>
    ELSE IF s[1] = "ESC" /\ Len(s) >= 2 /\ s[2] = "["
              /\ SkipParams(s, 3) <= Len(s) /\ s[SkipParams(s, 3)] = "m"
         THEN StripAnsi(SubSeq(s, SkipParams(s, 3) + 1, Len(s)))
         ELSE <<s[1]>> \o StripAnsi(Tail(s))

\* The fixed substitution table of _clean.
BoxSub(c) ==
    CASE c \in {"TL", "BL", "TR", "BR"} -> "+"
      [] c = "H" -> "-"
      [] c = "V" -> "|"
      [] OTHER -> c

\* PipelineHandler._clean
Clean(text) ==
    LET t == StripAnsi(text) IN [i \in 1..Len(t) |-> BoxSub(t[i])]

\* bool(clean.strip())
NonBlank(s) == \E i \in 1..Len(s) : s[i] \notin Whitespace

\* "".join(chunks)
RECURSIVE Join(_)
Join(chunks) ==
    IF chunks = <<>> THEN <<>> ELSE Head(chunks) \o Join(Tail(chunks))

\* s[-n:]
LastN(s, n) == IF Len(s) <= n THEN s ELSE SubSeq(s, Len(s) - n + 1, Len(s))

\* What the pipeline library writes on run r's worker thread as its n-th
\* text: a styled line (colour sequence, box glyphs, the run's marker, the
\* number of the line) or a colour sequence followed by a blank.
LineNo == <<"1", "2", "3", "4", "5", "6", "7", "8", "9">>
StyledTexts(r, n) ==
    { <<"ESC", "[", "1", ";", "0", "m", "TL", "H", Marker(r), LineNo[n], " ">>,
      <<"ESC", "[", "m", " ">> }

\* Texts without styling, for the specifications about ordering: the marker,
\* a blank, the empty text.
PlainTexts(r) == { <<Marker(r)>>, <<" ">>, <<>> }

\* ------------------------------------------------------------------- state
VARIABLES
    active_runs,          \* app.py:196  run ids in the registry (each maps to its queue)
    queue,                \* the queue.Queue of each run: events not yet taken
    handlers,             \* OutputInterceptor._handlers of stdout and of stderr
    rlock,                \* OutputInterceptor._lock: 0 or the thread id holding it
    upc,                  \* where another thread calling unregister(tid) is
    current_phase_index,  \* PipelineHandler.current_phase_index
    chunk_buffer,         \* PipelineHandler.chunk_buffer
    last_push,            \* PipelineHandler.last_push: the flush it is the time of
    hlock,                \* PipelineHandler._lock: Free or the thread holding it
    task_counter,         \* task_counter[0] of make_task_callback
    pc,                   \* where each run's worker thread is
    cpc,                  \* where the thread invoking the task callback is
    ret,                  \* worker: where write / unregister returns to
    cur,                  \* worker: the interceptor of the call in progress
    wtext,                \* worker: the text argument of write
    wfwd,                 \* worker: how the forward to _original went in this call
    wresult,              \* worker: what the last write call returned
    written,              \* history: every text write was called with
    whandler,             \* worker: the local `handler` of write / unregister
    save_i,               \* worker: loop index of the artifact loop
    combined,             \* the local `combined` of _flush, per calling thread
    saved,                \* files written in the run's output directory
    opc,                  \* SDLCOrchestrator.run: where it is
    iteration,            \* the loop variable of the review loop
    review_iterations,    \* SDLCOrchestrator.review_iterations
    artifacts,            \* SDLCOrchestrator.artifacts: the code and the review
    out_files,            \* what 02_code.py and 03_review.md hold
    reviews,              \* history: every review the reviewer returned
    revisions,            \* history: every revision the developer was asked for
    spc, srun, yielded,   \* stream requests: position, queue found, events yielded
    heartbeats,           \* heartbeats each stream has yielded
    opened_at,            \* history: the run's progress when a lookup found no entry
    texts,                \* what the library may write (fixed by Init)
    original,             \* OutputInterceptor._original: whether a write to it works
    writesLeft, cbLeft,   \* writes / callback invocations the library still makes
    cb_raised,            \* history: invocations of the callback that raised inside it
    startable,            \* run ids start may still hand out
    responses,            \* history: the body and the result of each start request
    removed,              \* history: times a registry entry of the run was removed
    sent,                 \* history: every event put on each run's queue
    flushed,              \* history: every _flush that put an event
    join_phase,           \* history: the phase index when `combined` was joined
    accepted,             \* history: every text process was called with
    raised                \* history: where the pipeline body raised ("no": nowhere)

regVars == <<active_runs, startable, removed, responses>>
qVars == <<queue, sent>>
routerVars == <<handlers, rlock, upc>>
handlerVars == <<current_phase_index, chunk_buffer, last_push, hlock>>
flushVars == <<combined, flushed, join_phase>>
cbVars == <<task_counter, cpc, cbLeft, cb_raised>>
wVars == <<pc, ret, cur, wtext, whandler, save_i, raised, wfwd, wresult, written>>
inVars == <<texts, original, writesLeft, accepted>>
orchVars == <<opc, iteration, review_iterations, artifacts, out_files,
             reviews, revisions>>
fileVars == <<saved, orchVars>>
streamVars == <<spc, srun, yielded, heartbeats, opened_at>>

vars == <<regVars, qVars, routerVars, handlerVars, flushVars, cbVars, wVars,
          inVars, fileVars, streamVars>>

StreamIds ==
    1..(IF MaxStreamsLive > MaxStreams THEN MaxStreamsLive ELSE MaxStreams)
\* The threads of a run: its worker ("w", thread id r) and the thread the
\* pipeline library invokes the task callback on ("cb"); "u" is another
\* thread, one that calls unregister with the worker's thread id.
Callers == {"w", "cb", "u"}
\* The thread id of that other thread (no worker's id).
OtherThread(r) == 0 - r
Free == <<"free", 0>>

\* ------------------------------------------------------------------ events
PipelineStart(r) == [event |-> "pipeline_start", run_id |-> r]
Status(m) == [event |-> "status", message |-> m]
PhaseStart(i) == [event |-> "phase_start", phase_index |-> i]
PhaseComplete(i) == [event |-> "phase_complete", phase_index |-> i]
AgentOutput(i, comb) ==
    [event |-> "agent_output", phase_index |-> i, text |-> LastN(comb, TailCap)]
PipelineComplete(r) == [event |-> "pipeline_complete", run_id |-> r]
ErrorEvent == [event |-> "error"]
Done == [event |-> "done"]
Heartbeat == [event |-> "heartbeat"]
NotFound == [event |-> "error", message |-> "Run not found or completed"]

\* event_queue.put(e)
\* Variant of Put on a queue of bounded size: put waits while the queue is full.
PutBlocking(r, e) ==
    /\ Len(queue[r]) < 3
    /\ queue' = [queue EXCEPT ![r] = Append(@, e)]
    /\ sent' = [sent EXCEPT ![r] = Append(@, e)]

\* event_queue.put on the unbounded queue.Queue() of the run (app.py:484).
Put(r, e) ==
    /\ queue' = [queue EXCEPT ![r] = Append(@, e)]
    /\ sent' = [sent EXCEPT ![r] = Append(@, e)]

\* -------------------------------------------------------------------- Init
\* The state after construction: the runs `ids` may be started, the library
\* makes w[r] writes and c[r] callback invocations in run r.
InitPer(ids, tx, w, c) ==
    /\ active_runs = {}
    /\ startable = ids
    /\ removed = [r \in RunIds |-> 0]
    /\ responses = [q \in Requests |-> NoResponse]
    /\ queue = [r \in RunIds |-> <<>>]
    /\ sent = [r \in RunIds |-> <<>>]
    /\ handlers = [i \in Interceptors |-> [t \in RunIds |-> NoHandler]]
    /\ rlock = [i \in Interceptors |-> 0]
    /\ upc = [r \in RunIds |-> "idle"]
    /\ current_phase_index = [r \in RunIds |-> 0]
    /\ chunk_buffer = [r \in RunIds |-> <<>>]
    /\ last_push = [r \in RunIds |-> 0]
    /\ hlock = [r \in RunIds |-> Free]
    /\ task_counter = [r \in RunIds |-> 0]
    /\ pc = [r \in RunIds |-> "none"]
    /\ cpc = [r \in RunIds |-> "idle"]
    /\ ret = [r \in RunIds |-> "none"]
    /\ cur = [r \in RunIds |-> "stdout"]
    /\ wtext = [r \in RunIds |-> <<>>]
    /\ wfwd = [r \in RunIds |-> "none"]
    /\ wresult = [r \in RunIds |-> 0]
    /\ written = [r \in RunIds |-> <<>>]
    /\ whandler = [r \in RunIds |-> NoHandler]
    /\ save_i = [r \in RunIds |-> 0]
    /\ combined = [r \in RunIds |-> [k \in Callers |-> <<>>]]
    /\ saved = [r \in RunIds |-> {}]
    /\ opc = "develop"
    /\ iteration = 0
    /\ review_iterations = 0
    /\ artifacts = [code |-> 0, review |-> NoReview]
    /\ out_files = [code |-> 0, review |-> NoReview]
    /\ reviews = <<>>
    /\ revisions = <<>>
    /\ spc = [s \in StreamIds |-> "idle"]
    /\ srun = [s \in StreamIds |-> UnknownRun]
    /\ yielded = [s \in StreamIds |-> <<>>]
    /\ heartbeats = [s \in StreamIds |-> 0]
    /\ opened_at = [s \in StreamIds |-> [worker |-> "none", delivered |-> FALSE]]
    /\ texts = tx
    /\ original = [i \in Interceptors |-> "ok"]
    /\ writesLeft = w
    /\ cbLeft = c
    /\ cb_raised = [r \in RunIds |-> 0]
    /\ flushed = [r \in RunIds |-> <<>>]
    /\ join_phase = [r \in RunIds |-> [k \in Callers |-> 0]]
    /\ accepted = [r \in RunIds |-> <<>>]
    /\ raised = [r \in RunIds |-> "no"]

InitWith(ids, tx, w, c) ==
    InitPer(ids, tx, [r \in RunIds |-> w], [r \in RunIds |-> c])

Init == InitWith({1}, "plain", MaxWrites, NumPhases + ExtraCallbacks)

\* What the library may write as the next text of this run's kickoff.
InputTexts(r) ==
    IF texts = "plain" THEN PlainTexts(r)
    ELSE StyledTexts(r, Len(accepted[r]) + 1)

\* ------------------------------------------------------------ start_pipeline
\* Variant of Strip that leaves the text as it is.
StripNothing(s) == s

\* str.strip(): the text without its leading and trailing whitespace.
RECURSIVE LStrip(_)
LStrip(s) ==
    IF s = <<>> THEN s
    ELSE IF Head(s) \in Whitespace THEN LStrip(Tail(s)) ELSE s
RECURSIVE RStrip(_)
RStrip(s) ==
    IF s = <<>> THEN s
    ELSE IF s[Len(s)] \in Whitespace THEN RStrip(SubSeq(s, 1, Len(s) - 1)) ELSE s
Strip(s) == RStrip(LStrip(s))

\* data.get("requirement", ""), app.py:479.
GetRequirement(data) ==
    IF "requirement" \in DOMAIN data THEN data.requirement ELSE <<>>

\* app.py:483-487  a fresh run id, its queue, the registry entry.
StartAccept(r) ==
    /\ r \in startable
    /\ pc[r] = "none"
    /\ startable' = startable \ {r}
    /\ active_runs' = active_runs \cup {r}
    /\ pc' = [pc EXCEPT ![r] = "accepted"]
    /\ UNCHANGED <<removed, qVars, routerVars, handlerVars, flushVars, cbVars, ret, cur,
                   wtext, whandler, save_i, raised, wfwd, wresult, written, inVars,
                   fileVars, streamVars>>

\* start_pipeline with a requirement that is a text with something in it.
StartInsert(r) ==
    /\ StartAccept(r)
    /\ UNCHANGED responses

\* start_pipeline, app.py:476-487, for request q with JSON body `data`: a
\* requirement that is empty after strip() is answered 400 and nothing else
\* happens; otherwise the run gets its id, queue and registry entry.
StartRequest(q, data) ==
    /\ responses[q] = NoResponse
    /\ IF Strip(GetRequirement(data)) = <<>>
       THEN /\ responses' = [responses EXCEPT ![q] =
                    [status |-> 400, data |-> data, run_id |-> UnknownRun]]
            /\ UNCHANGED <<active_runs, startable, removed, qVars, routerVars,
                           handlerVars, flushVars, cbVars, wVars, inVars,
                           fileVars, streamVars>>
       ELSE \E r \in RunIds :
                /\ StartAccept(r)
                /\ responses' = [responses EXCEPT ![q] =
                        [status |-> 200, data |-> data, run_id |-> r]]

\* app.py:489-496  the worker thread is started; start returns the run id.
StartLaunch(r) ==
    /\ pc[r] = "accepted"
    /\ pc' = [pc EXCEPT ![r] = "setup"]
    /\ UNCHANGED <<regVars, qVars, routerVars, handlerVars, flushVars, cbVars,
                   ret, cur, wtext, whandler, save_i, raised, wfwd, wresult,
                   written, inVars, fileVars, streamVars>>

\* ---------------------------------------------------- run_pipeline_streaming
\* The worker moves to `next` and touches nothing else.
Goto(r, next) ==
    /\ pc' = [pc EXCEPT ![r] = next]
    /\ UNCHANGED <<ret, cur, wtext, whandler, save_i, raised, wfwd, wresult,
                   written>>

\* The positions inside OutputInterceptor.write.
WritePcs == {"wr_lookup", "proc_lock", "proc_body", "proc_join", "proc_put"}

\* The call in progress returns: its locals are gone; write returns len(text)
\* (app.py:84).
Return(r) ==
    /\ pc' = [pc EXCEPT ![r] = ret[r]]
    /\ ret' = [ret EXCEPT ![r] = "none"]
    /\ cur' = [cur EXCEPT ![r] = "stdout"]
    /\ wtext' = [wtext EXCEPT ![r] = <<>>]
    /\ whandler' = [whandler EXCEPT ![r] = NoHandler]
    /\ wfwd' = [wfwd EXCEPT ![r] = "none"]
    /\ wresult' = [wresult EXCEPT ![r] =
            IF pc[r] \in WritePcs THEN Len(wtext[r]) ELSE @]
    /\ UNCHANGED <<save_i, raised, written>>

\* app.py:293-318  handler = PipelineHandler(event_queue); output directory
\* and the phase list.
WorkerSetup(r) ==
    /\ pc[r] = "setup"
    /\ Goto(r, "reg_out")
    /\ UNCHANGED <<regVars, qVars, routerVars, handlerVars, flushVars, cbVars,
                   inVars, fileVars, streamVars>>

\* OutputInterceptor.register (app.py:94-96), called at app.py:321-322.
Register(i, thread_id, handler) ==
    /\ rlock[i] = 0
    /\ handlers' = [handlers EXCEPT ![i][thread_id] = handler]
    /\ UNCHANGED <<rlock, upc>>

WorkerRegister(r, i, at, next) ==
    /\ pc[r] = at
    /\ Register(i, r, r)
    /\ Goto(r, next)
    /\ UNCHANGED <<regVars, qVars, handlerVars, flushVars, cbVars, inVars,
                   fileVars, streamVars>>

\* One event_queue.put of the worker, at `at`.
WorkerPut(r, at, e, next) ==
    /\ pc[r] = at
    /\ Put(r, e)
    /\ Goto(r, next)
    /\ UNCHANGED <<regVars, routerVars, handlerVars, flushVars, cbVars, inVars,
                   fileVars, streamVars>>

\* app.py:341-345  make_task_callback and build_sdlc_crew.
WorkerBuild(r) ==
    /\ pc[r] = "build"
    /\ Goto(r, "status2")
    /\ UNCHANGED <<regVars, qVars, routerVars, handlerVars, flushVars, cbVars,
                   inVars, fileVars, streamVars>>

\* app.py:320-361  from the registrations to phase_start(0).
WorkerBegin(r) ==
    \/ WorkerSetup(r)
    \/ WorkerRegister(r, "stdout", "reg_out", "reg_err")
    \/ WorkerRegister(r, "stderr", "reg_err", "put_start")
    \/ WorkerPut(r, "put_start", PipelineStart(r), "status1")
    \/ WorkerPut(r, "status1", Status("building"), "build")
    \/ WorkerBuild(r)
    \/ WorkerPut(r, "status2", Status("assembled"), "ps0")
    \/ WorkerPut(r, "ps0", PhaseStart(0), "kickoff")

\* ------------------------------------------------------------ PipelineHandler
\* Variant of Acquire that does not wait for the lock to be free.
AcquireNoWait(h, t) ==
    hlock' = [hlock EXCEPT ![h] = t]

\* `with self._lock:` of handler h, entered by thread t.
Acquire(h, t) ==
    /\ hlock[h] = Free
    /\ hlock' = [hlock EXCEPT ![h] = t]

\* Leaving the `with self._lock:` block of handler h.
Release(h) == hlock' = [hlock EXCEPT ![h] = Free]

\* Variant of FlushJoin that takes the newest chunk instead of joining all.
FlushJoinNewest(r, k, h) ==
    /\ combined' = [combined EXCEPT ![r][k] = chunk_buffer[h][Len(chunk_buffer[h])]]
    /\ join_phase' = [join_phase EXCEPT ![r][k] = current_phase_index[h]]

\* _flush, app.py:137-139: `combined` of thread k of run r is the joined buffer.
FlushJoin(r, k, h) ==
    /\ combined' = [combined EXCEPT ![r][k] = Join(chunk_buffer[h])]
    /\ join_phase' = [join_phase EXCEPT ![r][k] = current_phase_index[h]]

\* _flush, app.py:140-146: clear the buffer, reset last_push, put the event.
\* last_push is the time of the flush: flush number n happens at time n.
FlushPut(r, k, h, by) ==
    /\ chunk_buffer' = [chunk_buffer EXCEPT ![h] = <<>>]
    /\ last_push' = [last_push EXCEPT ![h] = Len(flushed[h]) + 1]
    /\ Put(h, AgentOutput(current_phase_index[h], combined[r][k]))
    /\ flushed' = [flushed EXCEPT ![h] = Append(@,
            [phase_index |-> current_phase_index[h], combined |-> combined[r][k],
             by |-> by, counter |-> task_counter[h],
             joined |-> join_phase[r][k], seen |-> Len(accepted[h])])]
    /\ combined' = [combined EXCEPT ![r][k] = <<>>]
    /\ join_phase' = [join_phase EXCEPT ![r][k] = 0]

\* ---------------------------------------------------------- OutputInterceptor
\* A lookup that ignores the calling thread: the handler of some registered
\* thread, as an interceptor with one current handler would return.
LookupAnyThread(i, tid) ==
    IF \E t \in RunIds : handlers[i][t] # NoHandler
    THEN handlers[i][CHOOSE t \in RunIds : handlers[i][t] # NoHandler]
    ELSE NoHandler

\* self._handlers.get(tid) under the router lock, app.py:78-80.
Lookup(i, tid) == handlers[i][tid]

\* Variant of Forward whose exception is not caught: the write call ends there.
ForwardUncaught(i) == IF original[i] = "ok" THEN "ok" ELSE "raise"

\* write, app.py:67-72: self._original.write(text) in try/except: what came
\* of the forward. The exception of a stream that does not work is swallowed.
Forward(i) == IF original[i] = "ok" THEN "ok" ELSE "failed"

\* write, app.py:65-75: the text goes to the real stream first; an empty text
\* returns 0 at once.
Write(r, i, text, at, next) ==
    /\ pc[r] = at
    /\ written' = [written EXCEPT ![r] = Append(@, text)]
    /\ IF Forward(i) = "raise"
       THEN /\ pc' = [pc EXCEPT ![r] = "error"]
            /\ UNCHANGED <<ret, cur, wtext, wfwd, wresult>>
       ELSE IF text = <<>>
       THEN /\ pc' = [pc EXCEPT ![r] = next]
            /\ wresult' = [wresult EXCEPT ![r] = 0]
            /\ UNCHANGED <<ret, cur, wtext, wfwd>>
       ELSE /\ pc' = [pc EXCEPT ![r] = "wr_lookup"]
            /\ ret' = [ret EXCEPT ![r] = next]
            /\ cur' = [cur EXCEPT ![r] = i]
            /\ wtext' = [wtext EXCEPT ![r] = text]
            /\ wfwd' = [wfwd EXCEPT ![r] = Forward(i)]
            /\ UNCHANGED wresult
    /\ UNCHANGED <<whandler, raised>>

\* write, app.py:78-84: the lookup; without a handler write returns.
WriteLookup(r) ==
    /\ pc[r] = "wr_lookup"
    /\ rlock[cur[r]] = 0
    /\ IF Lookup(cur[r], r) = NoHandler
       THEN Return(r)
       ELSE /\ whandler' = [whandler EXCEPT ![r] = Lookup(cur[r], r)]
            /\ pc' = [pc EXCEPT ![r] = "proc_lock"]
            /\ UNCHANGED <<ret, cur, wtext, save_i, raised, wfwd, wresult, written>>
    /\ UNCHANGED <<regVars, qVars, routerVars, handlerVars, flushVars, cbVars,
                   inVars, fileVars, streamVars>>

\* process, app.py:120-122 (text is not empty here: write returned otherwise).
ProcLock(r) ==
    /\ pc[r] = "proc_lock"
    /\ Acquire(whandler[r], <<"w", r>>)
    /\ Goto(r, "proc_body")
    /\ UNCHANGED <<current_phase_index, chunk_buffer, last_push>>
    /\ UNCHANGED <<regVars, qVars, routerVars, flushVars, cbVars, inVars,
                   fileVars, streamVars>>

\* Variant of ProcBodyAt that flushes only above the fragment threshold.
ProcBodyAtOver(r, late) ==
    LET h == whandler[r]
        clean == Clean(wtext[r])
        buf == Append(chunk_buffer[h], clean)
    IN
    /\ pc[r] = "proc_body"
    /\ accepted' = [accepted EXCEPT ![h] = Append(@,
            [raw |-> wtext[r], phase |-> current_phase_index[h], writer |-> r,
             fwd |-> wfwd[r]])]
    /\ IF NonBlank(clean)
       THEN /\ chunk_buffer' = [chunk_buffer EXCEPT ![h] = buf]
            /\ IF late \/ Len(buf) > FlushCount
               THEN /\ Goto(r, "proc_join")
                    /\ UNCHANGED hlock
               ELSE /\ Return(r)
                    /\ Release(h)
       ELSE /\ Return(r)
            /\ Release(h)
            /\ UNCHANGED chunk_buffer
    /\ UNCHANGED <<current_phase_index, last_push, texts, original, writesLeft>>
    /\ UNCHANGED <<regVars, qVars, routerVars, flushVars, cbVars, fileVars,
                   streamVars>>

\* process, app.py:123-128: clean, append when not blank, decide to flush.
\* `late` is now - self.last_push > 0.25: the scheduler decides how long ago
\* the last flush was, whatever happened since.
ProcBodyAt(r, late) ==
    LET h == whandler[r]
        clean == Clean(wtext[r])
        buf == Append(chunk_buffer[h], clean)
    IN
    /\ pc[r] = "proc_body"
    /\ accepted' = [accepted EXCEPT ![h] = Append(@,
            [raw |-> wtext[r], phase |-> current_phase_index[h], writer |-> r,
             fwd |-> wfwd[r]])]
    /\ IF NonBlank(clean)
       THEN /\ chunk_buffer' = [chunk_buffer EXCEPT ![h] = buf]
            /\ IF late \/ Len(buf) >= FlushCount
               THEN /\ Goto(r, "proc_join")
                    /\ UNCHANGED hlock
               ELSE /\ Return(r)
                    /\ Release(h)
       ELSE /\ Return(r)
            /\ Release(h)
            /\ UNCHANGED chunk_buffer
    /\ UNCHANGED <<current_phase_index, last_push, texts, original, writesLeft>>
    /\ UNCHANGED <<regVars, qVars, routerVars, flushVars, cbVars, fileVars,
                   streamVars>>

ProcBody(r) == \E late \in BOOLEAN : ProcBodyAt(r, late)

\* process -> _flush, app.py:137-139.
ProcJoin(r) ==
    LET h == whandler[r] IN
    /\ pc[r] = "proc_join"
    /\ IF chunk_buffer[h] = <<>>
       THEN /\ Return(r)
            /\ Release(h)
            /\ UNCHANGED <<combined, join_phase>>
       ELSE /\ Goto(r, "proc_put")
            /\ FlushJoin(r, "w", h)
            /\ UNCHANGED hlock
    /\ UNCHANGED <<current_phase_index, chunk_buffer, last_push, flushed>>
    /\ UNCHANGED <<regVars, qVars, routerVars, cbVars, inVars, fileVars,
                   streamVars>>

\* process -> _flush, app.py:140-146, and the end of process.
ProcPut(r) ==
    LET h == whandler[r] IN
    /\ pc[r] = "proc_put"
    /\ FlushPut(r, "w", h, "process")
    /\ Release(h)
    /\ Return(r)
    /\ UNCHANGED current_phase_index
    /\ UNCHANGED <<regVars, routerVars, cbVars, inVars, fileVars, streamVars>>

\* Variant of Unregister that removes the association without the final flush.
UnregisterNoFlush(r, i, at, next) ==
    /\ pc[r] = at
    /\ rlock[i] = 0
    /\ handlers' = [handlers EXCEPT ![i][r] = NoHandler]
    /\ pc' = [pc EXCEPT ![r] = next]
    /\ UNCHANGED <<rlock, ret, cur, whandler>>
    /\ UNCHANGED <<upc, wtext, save_i, raised, wfwd, wresult, written>>
    /\ UNCHANGED <<regVars, qVars, handlerVars, flushVars, cbVars, inVars,
                   fileVars, streamVars>>

\* unregister, app.py:99-101: pop under the router lock; with a handler the
\* lock stays held for flush_remaining.
Unregister(r, i, at, next) ==
    /\ pc[r] = at
    /\ rlock[i] = 0
    /\ handlers' = [handlers EXCEPT ![i][r] = NoHandler]
    /\ IF handlers[i][r] = NoHandler
       THEN /\ pc' = [pc EXCEPT ![r] = next]
            /\ UNCHANGED <<rlock, ret, cur, whandler>>
       ELSE /\ pc' = [pc EXCEPT ![r] = "fr_lock"]
            /\ rlock' = [rlock EXCEPT ![i] = r]
            /\ ret' = [ret EXCEPT ![r] = next]
            /\ cur' = [cur EXCEPT ![r] = i]
            /\ whandler' = [whandler EXCEPT ![r] = handlers[i][r]]
    /\ UNCHANGED <<upc, wtext, save_i, raised, wfwd, wresult, written>>
    /\ UNCHANGED <<regVars, qVars, handlerVars, flushVars, cbVars, inVars,
                   fileVars, streamVars>>

\* flush_remaining, app.py:157.
FrLock(r) ==
    /\ pc[r] = "fr_lock"
    /\ Acquire(whandler[r], <<"w", r>>)
    /\ Goto(r, "fr_join")
    /\ UNCHANGED <<current_phase_index, chunk_buffer, last_push>>
    /\ UNCHANGED <<regVars, qVars, routerVars, flushVars, cbVars, inVars,
                   fileVars, streamVars>>

\* Variant of FrJoin without the test for an empty buffer.
FrJoinAlways(r) ==
    LET h == whandler[r] IN
    /\ pc[r] = "fr_join"
    /\ Goto(r, "fr_put")
    /\ FlushJoin(r, "w", h)
    /\ UNCHANGED <<hlock, rlock>>
    /\ UNCHANGED <<current_phase_index, chunk_buffer, last_push, flushed, handlers, upc>>
    /\ UNCHANGED <<regVars, qVars, cbVars, inVars, fileVars, streamVars>>

\* flush_remaining -> _flush, app.py:137-139; on an empty buffer both locks
\* are released and unregister returns.
FrJoin(r) ==
    LET h == whandler[r] IN
    /\ pc[r] = "fr_join"
    /\ IF chunk_buffer[h] = <<>>
       THEN /\ Return(r)
            /\ Release(h)
            /\ rlock' = [rlock EXCEPT ![cur[r]] = 0]
            /\ UNCHANGED <<combined, join_phase>>
       ELSE /\ Goto(r, "fr_put")
            /\ FlushJoin(r, "w", h)
            /\ UNCHANGED <<hlock, rlock>>
    /\ UNCHANGED <<current_phase_index, chunk_buffer, last_push, flushed, handlers, upc>>
    /\ UNCHANGED <<regVars, qVars, cbVars, inVars, fileVars, streamVars>>

\* flush_remaining -> _flush, app.py:140-146; both locks are released.
FrPut(r) ==
    LET h == whandler[r] IN
    /\ pc[r] = "fr_put"
    /\ FlushPut(r, "w", h, "flush_remaining")
    /\ Release(h)
    /\ rlock' = [rlock EXCEPT ![cur[r]] = 0]
    /\ Return(r)
    /\ UNCHANGED <<current_phase_index, handlers, upc>>
    /\ UNCHANGED <<regVars, cbVars, inVars, fileVars, streamVars>>

\* The steps of a write or an unregister call in progress.
WorkerCall(r) ==
    \/ WriteLookup(r)
    \/ ProcLock(r)
    \/ ProcBody(r)
    \/ ProcJoin(r)
    \/ ProcPut(r)
    \/ FrLock(r)
    \/ FrJoin(r)
    \/ FrPut(r)

\* ------------------------------------------------------------- crew.kickoff()
\* The pipeline library writes a text on the worker thread (app.py:364).
KickoffWrite(r) ==
    /\ writesLeft[r] > 0
    /\ \E i \in Interceptors, text \in InputTexts(r) :
           Write(r, i, text, "kickoff", "kickoff")
    /\ writesLeft' = [writesLeft EXCEPT ![r] = @ - 1]
    /\ UNCHANGED <<save_i, texts, original, accepted>>
    /\ UNCHANGED <<regVars, qVars, routerVars, handlerVars, flushVars, cbVars,
                   fileVars, streamVars>>

\* The library invokes the task callback (a stage finished).
CbInvoke(r) ==
    /\ pc[r] = "kickoff"
    /\ cpc[r] = "idle"
    /\ cbLeft[r] > 0
    /\ cbLeft' = [cbLeft EXCEPT ![r] = @ - 1]
    /\ cpc' = [cpc EXCEPT ![r] = "cb_complete"]
    /\ UNCHANGED <<task_counter, cb_raised, regVars, qVars, routerVars,
                   handlerVars, flushVars, wVars, inVars, fileVars, streamVars>>

\* kickoff returns (no callback is in progress).
KickoffReturn(r) ==
    /\ pc[r] = "kickoff"
    /\ cpc[r] = "idle"
    /\ Goto(r, "unreg_out")
    /\ UNCHANGED <<regVars, qVars, routerVars, handlerVars, flushVars, cbVars,
                   inVars, fileVars, streamVars>>

\* Variant of CbComplete without the test idx < len(phases).
CbCompleteUnbounded(r) ==
    /\ cpc[r] = "cb_complete"
    /\ Put(r, PhaseComplete(task_counter[r]))
    /\ task_counter' = [task_counter EXCEPT ![r] = @ + 1]
    /\ cpc' = [cpc EXCEPT ![r] = "sp_lock"]
    /\ UNCHANGED <<cbLeft, cb_raised, regVars, routerVars, handlerVars, flushVars, wVars,
                   inVars, fileVars, streamVars>>

\* ------------------------------------------------- make_task_callback closure
\* _on_task_done, app.py:242-263: phase_complete(idx) when idx < len(phases),
\* then the counter.
CbComplete(r) ==
    /\ cpc[r] = "cb_complete"
    /\ IF task_counter[r] < NumPhases
       THEN Put(r, PhaseComplete(task_counter[r]))
       ELSE UNCHANGED qVars
    /\ task_counter' = [task_counter EXCEPT ![r] = @ + 1]
    /\ cpc' = [cpc EXCEPT ![r] = "sp_lock"]
    /\ UNCHANGED <<cbLeft, cb_raised, regVars, routerVars, handlerVars, flushVars, wVars,
                   inVars, fileVars, streamVars>>

\* Variant of SpLock that assigns the new index on entry, before the flush.
SpLockSetsIndex(r) ==
    /\ cpc[r] = "sp_lock"
    /\ Acquire(r, <<"cb", r>>)
    /\ current_phase_index' = [current_phase_index EXCEPT ![r] = task_counter[r]]
    /\ cpc' = [cpc EXCEPT ![r] = "sp_join"]
    /\ UNCHANGED <<chunk_buffer, last_push, task_counter,
                   cbLeft, cb_raised, regVars, qVars, routerVars, flushVars, wVars, inVars,
                   fileVars, streamVars>>

\* set_phase, app.py:132.
SpLock(r) ==
    /\ cpc[r] = "sp_lock"
    /\ Acquire(r, <<"cb", r>>)
    /\ cpc' = [cpc EXCEPT ![r] = "sp_join"]
    /\ UNCHANGED <<current_phase_index, chunk_buffer, last_push, task_counter,
                   cbLeft, cb_raised, regVars, qVars, routerVars, flushVars, wVars, inVars,
                   fileVars, streamVars>>

\* Variant of SpJoin in which set_phase calls flush_remaining, which takes the
\* handler lock again, instead of _flush.
SpJoinRelocks(r) ==
    /\ cpc[r] = "sp_join"
    /\ cpc' = [cpc EXCEPT ![r] = "sp_lock"]
    /\ UNCHANGED <<combined, join_phase>>
    /\ UNCHANGED <<flushed, task_counter, cbLeft, cb_raised, regVars, qVars, routerVars,
                   handlerVars, wVars, inVars, fileVars, streamVars>>

\* set_phase -> _flush, app.py:137-139.
SpJoin(r) ==
    /\ cpc[r] = "sp_join"
    /\ IF chunk_buffer[r] = <<>>
       THEN /\ cpc' = [cpc EXCEPT ![r] = "sp_set"]
            /\ UNCHANGED <<combined, join_phase>>
       ELSE /\ cpc' = [cpc EXCEPT ![r] = "sp_put"]
            /\ FlushJoin(r, "cb", r)
    /\ UNCHANGED <<flushed, task_counter, cbLeft, cb_raised, regVars, qVars, routerVars,
                   handlerVars, wVars, inVars, fileVars, streamVars>>

\* set_phase -> _flush, app.py:140-146.
SpPut(r) ==
    /\ cpc[r] = "sp_put"
    /\ FlushPut(r, "cb", r, "set_phase")
    /\ cpc' = [cpc EXCEPT ![r] = "sp_set"]
    /\ UNCHANGED <<current_phase_index, hlock, task_counter, cbLeft, cb_raised,
                   regVars, routerVars, wVars, inVars, fileVars, streamVars>>

\* set_phase, app.py:134: the index is set and the lock released.
SpSet(r) ==
    /\ cpc[r] = "sp_set"
    /\ current_phase_index' = [current_phase_index EXCEPT ![r] = task_counter[r]]
    /\ Release(r)
    /\ cpc' = [cpc EXCEPT ![r] = "cb_start"]
    /\ UNCHANGED <<chunk_buffer, last_push, task_counter, cbLeft, cb_raised, regVars, qVars,
                   routerVars, flushVars, wVars, inVars, fileVars, streamVars>>

\* Variant of CbStart whose bound test is `<=`: phase_start(N) is announced.
CbStartInclusive(r) ==
    /\ cpc[r] = "cb_start"
    /\ IF task_counter[r] <= NumPhases
       THEN Put(r, PhaseStart(task_counter[r]))
       ELSE UNCHANGED qVars
    /\ cpc' = [cpc EXCEPT ![r] = "idle"]
    /\ UNCHANGED <<task_counter, cbLeft, cb_raised, regVars, routerVars, handlerVars,
                   flushVars, wVars, inVars, fileVars, streamVars>>

\* _on_task_done, app.py:269-280: phase_start(next_idx) when it is a phase.
CbStart(r) ==
    /\ cpc[r] = "cb_start"
    /\ IF task_counter[r] < NumPhases
       THEN Put(r, PhaseStart(task_counter[r]))
       ELSE UNCHANGED qVars
    /\ cpc' = [cpc EXCEPT ![r] = "idle"]
    /\ UNCHANGED <<task_counter, cbLeft, cb_raised, regVars, routerVars, handlerVars,
                   flushVars, wVars, inVars, fileVars, streamVars>>

\* Variant of CbRaise without the try/except: the exception leaves the
\* callback and then kickoff.
CbRaisePropagates(r) ==
    /\ cpc[r] = "cb_complete" \/ (cpc[r] = "cb_start" /\ task_counter[r] < NumPhases)
    /\ cb_raised[r] < MaxCallbackRaises
    /\ pc[r] = "kickoff"
    /\ cpc' = [cpc EXCEPT ![r] = "idle"]
    /\ cb_raised' = [cb_raised EXCEPT ![r] = @ + 1]
    /\ pc' = [pc EXCEPT ![r] = "error"]
    /\ UNCHANGED <<ret, cur, wtext, whandler, save_i, raised, wfwd, wresult,
                   written>>
    /\ UNCHANGED <<task_counter, cbLeft, regVars, qVars, routerVars, handlerVars,
                   flushVars, inVars, fileVars, streamVars>>

\* _on_task_done, app.py:241, 281-282: building the phase_complete event
\* (app.py:242-260) or the phase_start event (app.py:268-280) raised; the
\* exception is discarded and the callback returns.
CbRaise(r) ==
    /\ cpc[r] = "cb_complete" \/ (cpc[r] = "cb_start" /\ task_counter[r] < NumPhases)
    /\ cb_raised[r] < MaxCallbackRaises
    /\ cpc' = [cpc EXCEPT ![r] = "idle"]
    /\ cb_raised' = [cb_raised EXCEPT ![r] = @ + 1]
    /\ UNCHANGED <<task_counter, cbLeft, regVars, qVars, routerVars, handlerVars,
                   flushVars, wVars, inVars, fileVars, streamVars>>

Callback(r) ==
    \/ CbInvoke(r)
    \/ CbComplete(r)
    \/ SpLock(r)
    \/ SpJoin(r)
    \/ SpPut(r)
    \/ SpSet(r)
    \/ CbStart(r)

\* ------------------------------------- run_pipeline_streaming, after kickoff
\* The file of phase i, the manifest and the conversation log.
ArtifactFile(i) == <<"artifact", i>>
Manifest == <<"manifest", 0>>
ConversationLog == <<"conversation_log", 0>>

\* app.py:376-397: one round of the artifact loop; save_artifact writes the
\* file and prints where it saved it (crew.py:373-375).
SaveArtifact(r) ==
    /\ pc[r] = "save"
    /\ IF save_i[r] < NumPhases
       THEN /\ saved' = [saved EXCEPT ![r] = @ \cup {ArtifactFile(save_i[r])}]
            /\ UNCHANGED orchVars
            /\ save_i' = [save_i EXCEPT ![r] = @ + 1]
            /\ Write(r, "stdout", <<" ", Marker(r)>>, "save", "save")
       ELSE /\ Goto(r, "manifest")
            /\ UNCHANGED <<saved, orchVars>>
    /\ UNCHANGED <<regVars, qVars, routerVars, handlerVars, flushVars, cbVars,
                   inVars, streamVars>>

\* Variant of SaveFile that goes on without writing the file.
SaveFileSkips(r, at, f, next) ==
    /\ pc[r] = at
    /\ Goto(r, next)
    /\ UNCHANGED <<regVars, qVars, routerVars, handlerVars, flushVars, cbVars,
                   inVars, fileVars, streamVars>>

\* app.py:421-429: manifest.json, then conversation_log.json.
SaveFile(r, at, f, next) ==
    /\ pc[r] = at
    /\ saved' = [saved EXCEPT ![r] = @ \cup {f}]
    /\ UNCHANGED orchVars
    /\ Goto(r, next)
    /\ UNCHANGED <<regVars, qVars, routerVars, handlerVars, flushVars, cbVars,
                   inVars, streamVars>>

\* app.py:366-438: the second half of the try block.
WorkerFinish(r) ==
    \/ Unregister(r, "stdout", "unreg_out", "unreg_err")
    \/ Unregister(r, "stderr", "unreg_err", "save")
    \/ SaveArtifact(r)
    \/ SaveFile(r, "manifest", Manifest, "convlog")
    \/ SaveFile(r, "convlog", ConversationLog, "complete")
    \/ WorkerPut(r, "complete", PipelineComplete(r), "fin_unreg_out")

\* Where the pipeline body can raise: the setup, build_sdlc_crew, kickoff
\* (a stage fails), the artifact loop, the manifest, the conversation log.
RaisePoints == {"setup", "build", "kickoff", "save", "manifest", "convlog"}

\* Variant of Raise without the except/finally: the exception ends the thread.
RaiseEndsThread(r) ==
    /\ pc[r] \in RaisePoints
    /\ cpc[r] = "idle"
    /\ pc' = [pc EXCEPT ![r] = "terminated"]
    /\ raised' = [raised EXCEPT ![r] = pc[r]]
    /\ UNCHANGED <<ret, cur, wtext, whandler, save_i, wfwd, wresult, written>>
    /\ UNCHANGED <<regVars, qVars, routerVars, handlerVars, flushVars, cbVars,
                   inVars, fileVars, streamVars>>

\* An exception leaves the try block: control is at `except` (app.py:440).
Raise(r) ==
    /\ pc[r] \in RaisePoints
    /\ cpc[r] = "idle"
    /\ pc' = [pc EXCEPT ![r] = "error"]
    /\ raised' = [raised EXCEPT ![r] = pc[r]]
    /\ UNCHANGED <<ret, cur, wtext, whandler, save_i, wfwd, wresult, written>>
    /\ UNCHANGED <<regVars, qVars, routerVars, handlerVars, flushVars, cbVars,
                   inVars, fileVars, streamVars>>

\* app.py:448-449: the registry entry is removed.
WorkerPop(r) ==
    /\ pc[r] = "pop"
    /\ active_runs' = active_runs \ {r}
    /\ removed' = [removed EXCEPT ![r] = IF r \in active_runs THEN @ + 1 ELSE @]
    /\ Goto(r, "terminated")
    /\ UNCHANGED <<startable, responses, qVars, routerVars, handlerVars, flushVars, cbVars,
                   inVars, fileVars, streamVars>>

\* Variant of WorkerCleanup whose finally block unregisters from the stdout
\* interceptor only.
WorkerCleanupOneInterceptor(r) ==
    \/ WorkerPut(r, "error", ErrorEvent, "fin_unreg_out")
    \/ Unregister(r, "stdout", "fin_unreg_out", "put_done")
    \/ WorkerPut(r, "put_done", Done, "pop")
    \/ WorkerPop(r)

\* Variant of WorkerCleanup whose except clause enqueues nothing.
WorkerCleanupSilent(r) ==
    \/ /\ pc[r] = "error"
       /\ Goto(r, "fin_unreg_out")
       /\ UNCHANGED <<regVars, qVars, routerVars, handlerVars, flushVars, cbVars,
                      inVars, fileVars, streamVars>>
    \/ Unregister(r, "stdout", "fin_unreg_out", "fin_unreg_err")
    \/ Unregister(r, "stderr", "fin_unreg_err", "put_done")
    \/ WorkerPut(r, "put_done", Done, "pop")
    \/ WorkerPop(r)

\* app.py:440-449: except and finally.
WorkerCleanup(r) ==
    \/ WorkerPut(r, "error", ErrorEvent, "fin_unreg_out")
    \/ Unregister(r, "stdout", "fin_unreg_out", "fin_unreg_err")
    \/ Unregister(r, "stderr", "fin_unreg_err", "put_done")
    \/ WorkerPut(r, "put_done", Done, "pop")
    \/ WorkerPop(r)

Worker(r) ==
    \/ WorkerBegin(r)
    \/ KickoffWrite(r)
    \/ KickoffReturn(r)
    \/ WorkerCall(r)
    \/ WorkerFinish(r)
    \/ Raise(r)
    \/ WorkerCleanup(r)

\* --------------------------------------------------------------------- stream
\* Variant of StreamOpen that answers a missing entry with the error twice.
StreamOpenRepeats(s, run_id) ==
    /\ spc[s] = "idle"
    /\ srun' = [srun EXCEPT ![s] = run_id]
    /\ IF run_id \in active_runs
       THEN /\ spc' = [spc EXCEPT ![s] = "gen"]
            /\ UNCHANGED yielded
       ELSE /\ spc' = [spc EXCEPT ![s] = "closed"]
            /\ yielded' = [yielded EXCEPT ![s] = <<NotFound, NotFound>>]
    /\ UNCHANGED <<opened_at, heartbeats, regVars, qVars, routerVars, handlerVars,
                   flushVars, cbVars, wVars, inVars, fileVars>>

\* stream, app.py:502-509: the lookup; without an entry the response is the
\* one error event.
StreamOpen(s, run_id) ==
    /\ spc[s] = "idle"
    /\ srun' = [srun EXCEPT ![s] = run_id]
    /\ IF run_id \in active_runs
       THEN /\ spc' = [spc EXCEPT ![s] = "gen"]
            /\ UNCHANGED <<yielded, opened_at>>
       ELSE /\ spc' = [spc EXCEPT ![s] = "closed"]
            /\ yielded' = [yielded EXCEPT ![s] = <<NotFound>>]
            /\ opened_at' = [opened_at EXCEPT ![s] =
                    [worker |-> IF run_id \in RunIds THEN pc[run_id] ELSE "none",
                     delivered |-> \E t \in StreamIds :
                                      /\ srun[t] = run_id
                                      /\ Len(SelectSeq(yielded[t],
                                                       LAMBDA e : e = Done)) > 0]]
    /\ UNCHANGED <<heartbeats, regVars, qVars, routerVars, handlerVars,
                   flushVars, cbVars, wVars, inVars, fileVars>>

\* Variant of StreamGet whose loop does not stop at done.
StreamGetKeepsOn(s) ==
    /\ spc[s] = "gen"
    /\ queue[srun[s]] # <<>>
    /\ queue' = [queue EXCEPT ![srun[s]] = Tail(@)]
    /\ yielded' = [yielded EXCEPT ![s] = Append(@, Head(queue[srun[s]]))]
    /\ UNCHANGED <<spc, srun, heartbeats, opened_at, sent, regVars, routerVars,
                   handlerVars, flushVars, cbVars, wVars, inVars, fileVars>>

\* generate, app.py:514-517: an event is taken and yielded; done ends the loop.
StreamGet(s) ==
    /\ spc[s] = "gen"
    /\ queue[srun[s]] # <<>>
    /\ queue' = [queue EXCEPT ![srun[s]] = Tail(@)]
    /\ yielded' = [yielded EXCEPT ![s] = Append(@, Head(queue[srun[s]]))]
    /\ spc' = [spc EXCEPT ![s] =
            IF Head(queue[srun[s]]).event = "done" THEN "closed" ELSE "gen"]
    /\ UNCHANGED <<srun, heartbeats, opened_at, sent, regVars, routerVars, handlerVars,
                   flushVars, cbVars, wVars, inVars, fileVars>>

\* generate, app.py:518-519: nothing arrived for 120 s.
StreamHeartbeat(s) ==
    /\ spc[s] = "gen"
    /\ queue[srun[s]] = <<>>
    /\ heartbeats[s] < MaxHeartbeats
    /\ heartbeats' = [heartbeats EXCEPT ![s] = @ + 1]
    /\ yielded' = [yielded EXCEPT ![s] = Append(@, Heartbeat)]
    /\ UNCHANGED <<spc, srun, opened_at, regVars, qVars, routerVars, handlerVars,
                   flushVars, cbVars, wVars, inVars, fileVars>>

Stream(s) ==
    \/ \E run_id \in RunIds \cup {UnknownRun} : StreamOpen(s, run_id)
    \/ StreamGet(s)
    \/ StreamHeartbeat(s)

Next ==
    \E r \in RunIds :
        \/ StartInsert(r)
        \/ StartLaunch(r)
        \/ Worker(r)
        \/ Callback(r)

Spec == Init /\ [][Next]_vars

\* Two runs started concurrently: both workers share the two interceptors.
\* The runs are followed through every step that registers, writes or
\* unregisters; one that reaches the artifact loop goes on only by raising.
InitTwo == InitWith({1, 2}, "styled", MaxWritesTwo, 0)

NextTwo ==
    \E r \in RunIds :
        \/ StartInsert(r)
        \/ StartLaunch(r)
        \/ WorkerBegin(r)
        \/ KickoffWrite(r)
        \/ KickoffReturn(r)
        \/ WorkerCall(r)
        \/ Unregister(r, "stdout", "unreg_out", "unreg_err")
        \/ Unregister(r, "stderr", "unreg_err", "save")
        \/ Raise(r)
        \/ WorkerCleanup(r)

SpecTwo == InitTwo /\ [][NextTwo]_vars

\* One run with the library writing styled and blank texts and invoking the
\* callback while it writes, up to the unregistrations that follow kickoff
\* (after them the handler receives nothing more).
InitHandler == InitWith({1}, "styled", MaxWritesHandler, MaxCallbacksHandler)

NextHandler ==
    \E r \in RunIds :
        \/ StartInsert(r)
        \/ StartLaunch(r)
        \/ WorkerBegin(r)
        \/ KickoffWrite(r)
        \/ KickoffReturn(r)
        \/ WorkerCall(r)
        \/ Callback(r)
        \/ Unregister(r, "stdout", "unreg_out", "unreg_err")
        \/ Unregister(r, "stderr", "unreg_err", "save")

SpecHandler == InitHandler /\ [][NextHandler]_vars

\* One run and the stream requests for it (or for an identifier no run has).
\* The library writes nothing and invokes no callback: the run's events are
\* the worker's own.
InitStream == InitWith({1}, "plain", 0, 0)

NextStream ==
    \/ \E r \in RunIds :
        \/ StartInsert(r)
        \/ StartLaunch(r)
        \/ WorkerBegin(r)
        \/ KickoffReturn(r)
        \/ WriteLookup(r)
        \/ FrLock(r)
        \/ FrJoin(r)
        \/ WorkerFinish(r)
        \/ Raise(r)
        \/ WorkerCleanup(r)
    \/ \E s \in 1..MaxStreams : Stream(s)

SpecStream == InitStream /\ [][NextStream]_vars

\* One run whose callback can raise while it builds an event; the library
\* invokes it fewer times than there are phases, as many times, or more.
\* Nothing else raises, so whatever aborts the run comes from the callback.
\* The crew is sequential (crew.py:311-347): the callback runs on the worker
\* thread, between two writes of the library.
InitCallback ==
    InitWith({1}, "plain", MaxWritesCallback, NumPhases + ExtraCallbacks)

NextCallback ==
    \E r \in RunIds :
        \/ StartInsert(r)
        \/ StartLaunch(r)
        \/ WorkerBegin(r)
        \/ cpc[r] = "idle" /\ KickoffWrite(r)
        \/ KickoffReturn(r)
        \/ WorkerCall(r)
        \/ WorkerFinish(r)
        \/ WorkerCleanup(r)
        \/ Callback(r)
        \/ CbRaise(r)

SpecCallback == InitCallback /\ [][NextCallback]_vars

\* The real stream behind interceptor i stops working, or works again.
ConsoleChange(i) ==
    /\ original' = [original EXCEPT ![i] = IF @ = "ok" THEN "broken" ELSE "ok"]
    /\ UNCHANGED <<texts, writesLeft, accepted>>
    /\ UNCHANGED <<regVars, qVars, routerVars, handlerVars, flushVars, cbVars,
                   wVars, fileVars, streamVars>>

\* One run whose library writes plain, blank and empty texts while the real
\* streams break and recover, up to the unregistrations that follow kickoff.
InitWrite == InitWith({1}, "plain", MaxWritesWrite, 0)

NextWrite ==
    \/ \E r \in RunIds :
        \/ StartInsert(r)
        \/ StartLaunch(r)
        \/ WorkerBegin(r)
        \/ KickoffWrite(r)
        \/ KickoffReturn(r)
        \/ WorkerCall(r)
        \/ Unregister(r, "stdout", "unreg_out", "unreg_err")
        \/ Unregister(r, "stderr", "unreg_err", "save")
    \/ \E i \in Interceptors : ConsoleChange(i)

SpecWrite == InitWrite /\ [][NextWrite]_vars

\* The client of stream s goes away: the response's generator is closed
\* where it waits (app.py:512-519), whatever is still queued.
StreamDisconnect(s) ==
    /\ spc[s] = "gen"
    /\ spc' = [spc EXCEPT ![s] = "closed"]
    /\ UNCHANGED <<srun, yielded, heartbeats, opened_at, regVars, qVars,
                   routerVars, handlerVars, flushVars, cbVars, wVars, inVars,
                   fileVars>>

\* The steps of the worker thread of run r, from the start of the thread; the
\* library writes nothing, invokes no callback and nothing raises.
LiveWorker(r) ==
    \/ StartLaunch(r)
    \/ WorkerBegin(r)
    \/ KickoffReturn(r)
    \/ WriteLookup(r)
    \/ FrLock(r)
    \/ FrJoin(r)
    \/ WorkerFinish(r)
    \/ WorkerCleanup(r)

\* Two runs and the stream requests for them; a client may never come, come
\* late, or go away. The worker threads are scheduled fairly; nothing is
\* assumed about the streams.
InitLive == InitWith({1, 2}, "plain", 0, 0)

LiveStream(s) ==
    \/ \E run_id \in RunIds : StreamOpen(s, run_id)
    \/ StreamGet(s)
    \/ StreamDisconnect(s)

\* The stream requests of the two-run system all name run 2; run 1 is the
\* run nobody watches.
WatchStream(s) ==
    \/ StreamOpen(s, 2)
    \/ StreamGet(s)
    \/ StreamDisconnect(s)

NextLive ==
    \/ \E r \in RunIds : StartInsert(r) \/ LiveWorker(r)
    \/ \E s \in 1..MaxStreams : WatchStream(s)

SpecLive ==
    /\ InitLive
    /\ [][NextLive]_vars
    /\ \A r \in RunIds : WF_vars(LiveWorker(r))

\* One run and several stream requests for it; the worker thread and every
\* generator that waits on the queue are scheduled fairly.
InitShared == InitWith({1}, "plain", 0, 0)

NextShared ==
    \/ \E r \in RunIds : StartInsert(r) \/ LiveWorker(r)
    \/ \E s \in 1..MaxStreamsLive : LiveStream(s) \/ StreamHeartbeat(s)

SpecShared ==
    /\ InitShared
    /\ [][NextShared]_vars
    /\ \A r \in RunIds : WF_vars(LiveWorker(r))
    /\ \A s \in 1..MaxStreamsLive : WF_vars(StreamGet(s))

\* -------------------------- unregister(tid) called by a thread other than tid
\* unregister, app.py:99-101, called with the worker's thread id by another
\* thread: pop under the router lock; with a handler the lock stays held for
\* flush_remaining.
OtherUnregister(r, i) ==
    /\ upc[r] = "idle"
    /\ pc[r] \notin {"none", "accepted", "terminated"}
    /\ rlock[i] = 0
    /\ handlers' = [handlers EXCEPT ![i][r] = NoHandler]
    /\ IF handlers[i][r] = NoHandler
       THEN UNCHANGED <<rlock, upc>>
       ELSE /\ rlock' = [rlock EXCEPT ![i] = OtherThread(r)]
            /\ upc' = [upc EXCEPT ![r] = "fr_lock"]
    /\ UNCHANGED <<regVars, qVars, handlerVars, flushVars, cbVars, wVars,
                   inVars, fileVars, streamVars>>

\* flush_remaining, app.py:157, on the other thread.
OtherFrLock(r) ==
    /\ upc[r] = "fr_lock"
    /\ Acquire(r, <<"u", r>>)
    /\ upc' = [upc EXCEPT ![r] = "fr_join"]
    /\ UNCHANGED <<current_phase_index, chunk_buffer, last_push, handlers, rlock>>
    /\ UNCHANGED <<regVars, qVars, flushVars, cbVars, wVars, inVars, fileVars,
                   streamVars>>

\* The router lock the other thread holds is released.
OtherRelease(r) ==
    rlock' = [i \in Interceptors |->
                 IF rlock[i] = OtherThread(r) THEN 0 ELSE rlock[i]]

\* flush_remaining -> _flush, app.py:137-139, on the other thread; on an
\* empty buffer both locks are released and unregister returns.
OtherFrJoin(r) ==
    /\ upc[r] = "fr_join"
    /\ IF chunk_buffer[r] = <<>>
       THEN /\ upc' = [upc EXCEPT ![r] = "idle"]
            /\ Release(r)
            /\ OtherRelease(r)
            /\ UNCHANGED <<combined, join_phase>>
       ELSE /\ upc' = [upc EXCEPT ![r] = "fr_put"]
            /\ FlushJoin(r, "u", r)
            /\ UNCHANGED <<hlock, rlock>>
    /\ UNCHANGED <<current_phase_index, chunk_buffer, last_push, flushed, handlers>>
    /\ UNCHANGED <<regVars, qVars, cbVars, wVars, inVars, fileVars, streamVars>>

\* flush_remaining -> _flush, app.py:140-146, on the other thread; both locks
\* are released and unregister returns.
OtherFrPut(r) ==
    /\ upc[r] = "fr_put"
    /\ FlushPut(r, "u", r, "flush_remaining")
    /\ Release(r)
    /\ OtherRelease(r)
    /\ upc' = [upc EXCEPT ![r] = "idle"]
    /\ UNCHANGED <<current_phase_index, handlers>>
    /\ UNCHANGED <<regVars, cbVars, wVars, inVars, fileVars, streamVars>>

OtherCall(r) ==
    \/ \E i \in Interceptors : OtherUnregister(r, i)
    \/ OtherFrLock(r)
    \/ OtherFrJoin(r)
    \/ OtherFrPut(r)

\* One run whose library writes during kickoff, and another thread that may
\* call unregister with the worker's thread id at any moment; no callback is
\* invoked and nothing raises.
InitOther == InitWith({1}, "plain", MaxWritesOther, 0)

NextOther ==
    \E r \in RunIds :
        \/ StartInsert(r)
        \/ StartLaunch(r)
        \/ WorkerBegin(r)
        \/ KickoffWrite(r)
        \/ KickoffReturn(r)
        \/ WorkerCall(r)
        \/ WorkerFinish(r)
        \/ WorkerCleanup(r)
        \/ OtherCall(r)

SpecOther == InitOther /\ [][NextOther]_vars

\* Two runs: in run 1 the library writes and invokes the callback, in run 2
\* it writes once; the artifact loop raises. Every thread that takes the
\* router mutexes, the handler mutexes or the registry mutex is there.
InitLocks ==
    InitPer({1, 2}, "plain",
            [r \in RunIds |-> IF r = 1 THEN MaxWritesLocks ELSE 1],
            [r \in RunIds |-> IF r = 1 THEN MaxCallbacksLocks ELSE 0])

NextLocks ==
    \E r \in RunIds :
        \/ StartInsert(r)
        \/ StartLaunch(r)
        \/ WorkerBegin(r)
        \/ KickoffWrite(r)
        \/ KickoffReturn(r)
        \/ WorkerCall(r)
        \/ Callback(r)
        \/ Unregister(r, "stdout", "unreg_out", "unreg_err")
        \/ Unregister(r, "stderr", "unreg_err", "save")
        \/ pc[r] = "save" /\ Raise(r)
        \/ WorkerCleanup(r)

SpecLocks == InitLocks /\ [][NextLocks]_vars

\* Start requests with any body, and the workers of the runs accepted.
InitStart == InitWith({1, 2}, "plain", 0, 0)

NextStart ==
    \/ \E q \in Requests, data \in Bodies : StartRequest(q, data)
    \/ \E r \in RunIds : LiveWorker(r)

SpecStart == InitStart /\ [][NextStart]_vars

\* ------------------------------------------------------ SDLCOrchestrator.run
\* _is_approved, orchestrator.py:184-193.
_is_approved(review) ==
    IF review.approved /\ ~review.needs_revision THEN TRUE
    ELSE IF review.score # -1 /\ review.score >= 7 THEN TRUE
    ELSE FALSE

\* orchestrator.py:81-83: the developer writes the code (version 1), which is
\* saved as 02_code.py.
OrchDevelop ==
    /\ opc = "develop"
    /\ artifacts' = [artifacts EXCEPT !.code = 1]
    /\ out_files' = [out_files EXCEPT !.code = 1]
    /\ opc' = "for"
    /\ UNCHANGED <<iteration, review_iterations, reviews, revisions>>

\* orchestrator.py:87-89: the next round of range(1, REVIEW_MAX_ITERATIONS + 1),
\* or the end of the loop.
OrchFor ==
    /\ opc = "for"
    /\ IF iteration < REVIEW_MAX_ITERATIONS
       THEN /\ iteration' = iteration + 1
            /\ review_iterations' = iteration + 1
            /\ opc' = "review"
       ELSE /\ opc' = "save_review"
            /\ UNCHANGED <<iteration, review_iterations>>
    /\ UNCHANGED <<artifacts, out_files, reviews, revisions>>

\* Variant of OrchReview that asks for a revision after the last round too.
OrchReviewAlwaysRevises(text) ==
    /\ opc = "review"
    /\ artifacts' = [artifacts EXCEPT !.review = [of |-> artifacts.code, text |-> text]]
    /\ reviews' = Append(reviews, [of |-> artifacts.code, text |-> text])
    /\ opc' = IF _is_approved(text) THEN "save_review" ELSE "revise"
    /\ UNCHANGED <<iteration, review_iterations, out_files, revisions>>

\* orchestrator.py:91-101: the review of the current code; approved ends the
\* loop, otherwise a revision follows unless this was the last round.
OrchReview(text) ==
    /\ opc = "review"
    /\ artifacts' = [artifacts EXCEPT !.review = [of |-> artifacts.code, text |-> text]]
    /\ reviews' = Append(reviews, [of |-> artifacts.code, text |-> text])
    /\ opc' = IF _is_approved(text) THEN "save_review"
              ELSE IF iteration < REVIEW_MAX_ITERATIONS THEN "revise"
              ELSE "for"
    /\ UNCHANGED <<iteration, review_iterations, out_files, revisions>>

\* orchestrator.py:103-104: the developer revises; the new code is saved.
OrchRevise ==
    /\ opc = "revise"
    /\ artifacts' = [artifacts EXCEPT !.code = @ + 1]
    /\ out_files' = [out_files EXCEPT !.code = artifacts.code + 1]
    /\ revisions' = Append(revisions, [round |-> iteration, review |-> artifacts.review])
    /\ opc' = "for"
    /\ UNCHANGED <<iteration, review_iterations, reviews>>

\* orchestrator.py:106: 03_review.md.
OrchSaveReview ==
    /\ opc = "save_review"
    /\ out_files' = [out_files EXCEPT !.review = artifacts.review]
    /\ opc' = "saved"
    /\ UNCHANGED <<iteration, review_iterations, artifacts, reviews, revisions>>

InitReview == InitWith({}, "plain", 0, 0)

NextReview ==
    /\ \/ OrchDevelop
       \/ OrchFor
       \/ \E text \in Verdicts : OrchReview(text)
       \/ OrchRevise
       \/ OrchSaveReview
    /\ UNCHANGED <<saved, regVars, qVars, routerVars, handlerVars, flushVars,
                   cbVars, wVars, inVars, streamVars>>

SpecReview == InitReview /\ [][NextReview]_vars

\* =================================================================== claims
IsOutput(e) == e.event = "agent_output"
Outputs(q) == SelectSeq(q, IsOutput)
\* The events of q that are not agent_output events.
NonOutputs(q) == SelectSeq(q, LAMBDA e : ~IsOutput(e))
\* Every marker in text s is the marker of run r.
OwnMarkers(s, r) == \A i \in 1..Len(s) : s[i] \in Markers => s[i] = Marker(r)
InProcess(r) == pc[r] \in {"proc_lock", "proc_body", "proc_join", "proc_put"}

\* C1: whatever the interleaving of the two workers' register, unregister and
\* write calls, a text is passed only to the handler registered for the
\* writing thread: the handler a write holds is the writer's own, every
\* process call of a handler was made with a text of its own worker, and the
\* buffer and the agent_output events of a run hold only its own marker.
C1_RoutingIsolation ==
    \A r \in RunIds :
        /\ InProcess(r) => whandler[r] = r /\ handlers[cur[r]][r] = r
        /\ \A k \in 1..Len(accepted[r]) : accepted[r][k].writer = r
        /\ \A k \in 1..Len(chunk_buffer[r]) : OwnMarkers(chunk_buffer[r][k], r)
        /\ \A k \in 1..Len(sent[r]) :
               IsOutput(sent[r][k]) => OwnMarkers(sent[r][k].text, r)

\* Both runs are registered with stdout at once and each queue already holds
\* an agent_output event.
C1_Witness ==
    /\ \A r \in RunIds : handlers["stdout"][r] = r /\ Outputs(sent[r]) # <<>>
    /\ \E e \in {Outputs(sent[2])[1]} : \E i \in 1..Len(e.text) : e.text[i] = Marker(2)

Count(q, e) == Len(SelectSeq(q, LAMBDA x : x = e))
Last(q) == q[Len(q)]
Launched(r) == pc[r] \notin {"none", "accepted"}
Registered(r) == \E i \in Interceptors : handlers[i][r] # NoHandler

RECURSIVE PhaseEvents(_)
PhaseEvents(n) ==
    IF n = 0 THEN <<>>
    ELSE PhaseEvents(n - 1) \o <<PhaseStart(n - 1), PhaseComplete(n - 1)>>

\* The events of a complete run around its phases, with the given statuses.
RunEvents(r, statuses) ==
    <<PipelineStart(r)>> \o statuses \o PhaseEvents(NumPhases)
        \o <<PipelineComplete(r), Done>>

CleanRun(r) ==
    /\ pc[r] = "terminated"
    /\ raised[r] = "no"
    /\ cb_raised[r] = 0
    /\ task_counter[r] = NumPhases

\* C2 as stated: in a run with N phases whose callback ran once per stage and
\* in which nothing raised, the queue received, agent_output aside,
\* pipeline_start, ONE status, phase_start(0), phase_complete(0), ...,
\* phase_complete(N-1), pipeline_complete, done.
C2_OneStatus ==
    \A r \in RunIds :
        CleanRun(r) =>
            \E m \in {"building", "assembled"} :
                NonOutputs(sent[r]) = RunEvents(r, <<Status(m)>>)

\* C2 amended: in such a run the queue received, agent_output aside,
\* pipeline_start, status, status, phase_start(0), phase_complete(0),
\* phase_start(1), ..., phase_complete(N-1), pipeline_complete, done: one
\* status before the crew is built and one after.
C2_EventOrder ==
    \A r \in RunIds :
        CleanRun(r) =>
            NonOutputs(sent[r]) =
                RunEvents(r, <<Status("building"), Status("assembled")>>)

C2_Witness ==
    /\ CleanRun(1)
    /\ Outputs(sent[1]) # <<>>
    /\ Len(NonOutputs(sent[1])) = 2 * NumPhases + 5

\* C3: on every path out of the worker the thread is unregistered from both
\* interceptors before the single done event is enqueued, and done is enqueued
\* before the registry entry is removed; the entry is there from before the
\* launch, and a terminated worker has left no entry and removed it once.
C3_CleanupOrder ==
    \A r \in RunIds :
        /\ Count(sent[r], Done) <= 1
        /\ Count(sent[r], Done) = 1 => ~Registered(r) /\ Last(sent[r]) = Done
        /\ Launched(r) /\ r \notin active_runs => Count(sent[r], Done) = 1
        /\ Launched(r) /\ pc[r] # "terminated" => r \in active_runs
        /\ removed[r] = (IF Launched(r) /\ r \notin active_runs THEN 1 ELSE 0)
        /\ pc[r] = "terminated" =>
               r \notin active_runs /\ Count(sent[r], Done) = 1

C3_Witness ==
    /\ pc[1] = "terminated"
    /\ raised[1] = "kickoff"
    /\ \E k \in 1..Len(flushed[1]) : flushed[1][k].by = "flush_remaining"
    /\ removed[1] = 1

\* C4 as stated: when the body raises in the middle of a stage, whatever is
\* buffered in the handler, the queue ends with error immediately followed by
\* done, and the registry entry is removed.
C4_ErrorThenDone ==
    \A r \in RunIds :
        pc[r] = "terminated" /\ raised[r] = "kickoff" =>
            /\ Len(sent[r]) >= 2
            /\ sent[r][Len(sent[r]) - 1] = ErrorEvent
            /\ Last(sent[r]) = Done
            /\ r \notin active_runs

\* C7 as stated: an agent_output tagged i is enqueued after phase_start(i) and
\* before phase_complete(i).
C7_OutputWithinPhase ==
    \A r \in RunIds : \A k \in 1..Len(sent[r]) :
        IsOutput(sent[r][k]) =>
            /\ \E j \in 1..(k - 1) : sent[r][j] = PhaseStart(sent[r][k].phase_index)
            /\ \A j \in 1..(k - 1) :
                   sent[r][j] # PhaseComplete(sent[r][k].phase_index)

\* C5 as stated: a stream request that arrives after start returned and before
\* done has been delivered finds the run's queue and is not answered with
\* "run not found", whatever the worker's progress.
C5_EntryUntilDelivered ==
    \A s \in StreamIds :
        srun[s] \in RunIds /\ yielded[s] = <<NotFound>> =>
            \/ opened_at[s].worker \in {"none", "accepted"}
            \/ opened_at[s].delivered

\* C6 as stated: once a stream has delivered the done event of a run,
\* active_runs does not contain the run's identifier.
C6_NoEntryAfterDone ==
    \A s \in StreamIds :
        yielded[s] # <<>> /\ Last(yielded[s]) = Done =>
            srun[s] \notin active_runs

Kept(acc) == SelectSeq(acc, LAMBDA a : NonBlank(Clean(a.raw)))
CleanedText(acc) == Join([k \in 1..Len(Kept(acc)) |-> Clean(Kept(acc)[k].raw)])
FlushedText(fl) == Join([k \in 1..Len(fl) |-> fl[k].combined])
Blank(acc) == SelectSeq(acc, LAMBDA a : ~NonBlank(Clean(a.raw)))
Changed(acc) == SelectSeq(acc, LAMBDA a : Clean(a.raw) # a.raw)

\* C8: whatever process and set_phase calls a handler received, the texts of
\* the agent_output events enqueued, followed by what is still buffered, are
\* the cleaned non-blank fragments in the order written; after the final
\* flush nothing is buffered, so the events alone carry every fragment once.
C8_NoFragmentLost ==
    \A r \in RunIds :
        /\ FlushedText(flushed[r]) \o Join(chunk_buffer[r])
               = CleanedText(accepted[r])
        /\ Len(Outputs(sent[r])) = Len(flushed[r])
        /\ \A k \in 1..Len(flushed[r]) :
               Outputs(sent[r])[k].text = LastN(flushed[r][k].combined, TailCap)
        /\ pc[r] = "save" => chunk_buffer[r] = <<>>

C8_Witness ==
    /\ pc[1] = "save"
    /\ Len(flushed[1]) >= 2
    /\ \E k \in 1..Len(flushed[1]) : flushed[1][k].by = "set_phase"
    /\ Blank(accepted[1]) # <<>>
    /\ Len(Changed(Kept(accepted[1]))) >= 2
    /\ FlushedText(flushed[1]) = CleanedText(accepted[1])

InSetPhase(r) == cpc[r] \in {"sp_lock", "sp_join", "sp_put", "sp_set"}

\* C9: an event enqueued by set_phase(n) carries the index that was current
\* before the call (n - 1), never n; the index becomes n only when set_phase
\* is over; no event is enqueued for an empty buffer.
C9_SetPhaseFlushesOldIndex ==
    \A r \in RunIds :
        /\ \A k \in 1..Len(flushed[r]) :
               /\ flushed[r][k].combined # <<>>
               /\ flushed[r][k].by = "set_phase" =>
                      /\ flushed[r][k].phase_index = flushed[r][k].counter - 1
                      /\ flushed[r][k].phase_index # flushed[r][k].counter
        /\ InSetPhase(r) => current_phase_index[r] = task_counter[r] - 1
        /\ cpc[r] \in {"cb_start", "idle"} =>
               current_phase_index[r] = task_counter[r]
        /\ cpc[r] = "sp_set" => chunk_buffer[r] = <<>>

C9_Witness ==
    /\ cpc[1] = "cb_start"
    /\ current_phase_index[1] = 2
    /\ Len(flushed[1]) >= 2
    /\ flushed[1][Len(flushed[1])].by = "set_phase"
    /\ flushed[1][Len(flushed[1])].phase_index = 1

\* The threads inside a `with self._lock:` block of handler h.
Inside(h) ==
    {<<"w", r>> : r \in {x \in RunIds :
        /\ whandler[x] = h
        /\ pc[x] \in {"proc_body", "proc_join", "proc_put", "fr_join", "fr_put"}}}
    \cup {<<"cb", r>> : r \in {x \in RunIds :
        x = h /\ cpc[x] \in {"sp_join", "sp_put", "sp_set"}}}

PhasesSeen(r) ==
    {accepted[r][k].phase : k \in 1..Len(accepted[r])}
        \cup {flushed[r][k].phase_index : k \in 1..Len(flushed[r])}
        \cup {current_phase_index[r]}

\* C10: at most one thread is inside process, set_phase or flush_remaining of
\* a handler, and it holds the handler's lock; for every phase index i the
\* events tagged i, followed by the buffer while i is current, are the
\* fragments accepted while i was current, each once and in order; a flush
\* carries the index under which its text was joined.
C10_ProcessSetPhaseSerial ==
    \A r \in RunIds :
        /\ Inside(r) \subseteq {hlock[r]}
        /\ \A i \in PhasesSeen(r) :
               FlushedText(SelectSeq(flushed[r], LAMBDA f : f.phase_index = i))
                   \o (IF current_phase_index[r] = i
                       THEN Join(chunk_buffer[r]) ELSE <<>>)
               = CleanedText(SelectSeq(accepted[r], LAMBDA a : a.phase = i))
        /\ \A k \in 1..Len(flushed[r]) :
               flushed[r][k].joined = flushed[r][k].phase_index

C10_Witness ==
    /\ cpc[1] = "sp_lock"
    /\ task_counter[1] = 2
    /\ pc[1] = "proc_put"
    /\ hlock[1] = <<"w", 1>>
    /\ \E k \in 1..Len(flushed[1]) : flushed[1][k].by = "set_phase"

InHandlerCall(r) ==
    pc[r] \in {"proc_lock", "proc_body", "proc_join", "proc_put",
               "fr_lock", "fr_join", "fr_put"}

\* C11 as stated: no thread holds an interceptor's mutex while a handler's
\* process or flush is executing for it (waiting for the handler mutex and
\* enqueuing included), in write, register and unregister alike.
C11_RouterLockBrief ==
    \A i \in Interceptors : \A r \in RunIds :
        rlock[i] = r => ~InHandlerCall(r)

NonHeartbeats(y) == SelectSeq(y, LAMBDA e : e # Heartbeat)

RECURSIVE IsSubseq(_, _)
IsSubseq(a, b) ==
    IF a = <<>> THEN TRUE
    ELSE IF b = <<>> THEN FALSE
    ELSE IF Head(a) = Head(b) THEN IsSubseq(Tail(a), Tail(b))
    ELSE IsSubseq(a, Tail(b))

\* A stream whose lookup found its run.
Found(s) ==
    /\ spc[s] # "idle"
    /\ srun[s] \in RunIds
    /\ yielded[s] # <<NotFound>>

Consumers(r) == {s \in StreamIds : Found(s) /\ srun[s] = r}

RECURSIVE Taken(_, _)
Taken(r, n) ==
    IF n = 0 THEN 0
    ELSE Taken(r, n - 1)
         + (IF n \in Consumers(r) THEN Len(NonHeartbeats(yielded[n])) ELSE 0)

\* C12: a stream of a run found in the registry yields the run's events in
\* the order they were enqueued (a single stream yields exactly the enqueued
\* events that are no longer queued); done is yielded last and closes the
\* stream, nothing else does; heartbeats take nothing from the queue.
C12_StreamFifo ==
    /\ \A s \in StreamIds :
          Found(s) =>
              /\ IsSubseq(NonHeartbeats(yielded[s]), sent[srun[s]])
              /\ Consumers(srun[s]) = {s} =>
                     NonHeartbeats(yielded[s]) \o queue[srun[s]] = sent[srun[s]]
              /\ \A k \in 1..Len(yielded[s]) :
                     yielded[s][k] = Done => k = Len(yielded[s])
              /\ spc[s] = "closed" <=>
                     (yielded[s] # <<>> /\ Last(yielded[s]) = Done)
    /\ \A r \in RunIds :
          Len(sent[r]) = Len(queue[r]) + Taken(r, MaxStreams)

C12_Witness ==
    /\ Found(1)
    /\ spc[1] = "closed"
    /\ \E k \in 1..(Len(yielded[1]) - 1) :
          yielded[1][k] = Heartbeat /\ yielded[1][k + 1] # Heartbeat
    /\ NonHeartbeats(yielded[1]) = sent[srun[1]]
    /\ PipelineComplete(srun[1]) \in {sent[srun[1]][k] : k \in 1..Len(sent[srun[1]])}

\* C13: a stream request for an identifier without a registry entry yields
\* the one error event and ends: the step that answers it leaves the registry
\* and every queue as they were, and the stream yields nothing afterwards.
C13_UnknownRunOneError ==
    [][\A s \in StreamIds :
          /\ spc[s] = "idle" /\ spc'[s] # "idle" /\ srun'[s] \notin active_runs =>
                /\ spc'[s] = "closed"
                /\ yielded'[s] = <<NotFound>>
                /\ active_runs' = active_runs
                /\ queue' = queue
                /\ sent' = sent
          /\ spc[s] = "closed" =>
                spc'[s] = "closed" /\ yielded'[s] = yielded[s]]_vars

C13_Witness ==
    /\ spc[1] = "closed"
    /\ srun[1] = 1
    /\ yielded[1] = <<NotFound>>
    /\ opened_at[1].worker = "terminated"
    /\ 1 \notin active_runs
    /\ sent[1] # <<>>
    /\ queue[1] = sent[1]

Terminals(q, r) ==
    SelectSeq(q, LAMBDA e : e = ErrorEvent \/ e = PipelineComplete(r))

Events(q) == {q[k] : k \in 1..Len(q)}

\* C15: when nothing but the callback raises, no error event is ever
\* enqueued, the worker is never at its except clause, the callback is back
\* to idle without the handler's lock, and a terminated run has enqueued
\* pipeline_complete: an exception inside the callback aborts nothing.
C15_CallbackNeverAborts ==
    \A r \in RunIds :
        /\ ErrorEvent \notin Events(sent[r])
        /\ pc[r] # "error"
        /\ cpc[r] = "idle" => hlock[r] # <<"cb", r>>
        /\ pc[r] = "terminated" => PipelineComplete(r) \in Events(sent[r])

C15_Witness ==
    /\ pc[1] = "terminated"
    /\ cb_raised[1] = MaxCallbackRaises
    /\ PipelineComplete(1) \in Events(sent[1])
    /\ PhaseComplete(NumPhases - 1) \in Events(sent[1])

IsPhaseEvent(e) == e.event \in {"phase_start", "phase_complete"}
PhaseIndexes(q, kind) ==
    LET sel == SelectSeq(q, LAMBDA e : e.event = kind)
    IN [k \in 1..Len(sel) |-> sel[k].phase_index]
Increasing(ix) == \A k \in 1..(Len(ix) - 1) : ix[k] < ix[k + 1]

EmptyFlushStep(r) ==
    \/ /\ pc[r] = "fr_join"
       /\ pc'[r] # "fr_join"
       /\ chunk_buffer[whandler[r]] = <<>>
    \/ /\ cpc[r] = "sp_join"
       /\ cpc'[r] # "sp_join"
       /\ chunk_buffer[r] = <<>>

\* C17: a flush that finds the buffer empty enqueues nothing and leaves the
\* buffer, the phase index and the last-flush time as they were; hence no
\* agent_output is empty, the last-flush time changes only with an event, and
\* between two agent_output events a non-blank fragment was accepted (two
\* flushes in a row enqueue at most one event).
C17_FlushIdempotent ==
    /\ [](\A r \in RunIds :
            /\ last_push[r] = Len(flushed[r])
            /\ \A k \in 1..Len(flushed[r]) : flushed[r][k].combined # <<>>
            /\ \A k \in 1..(Len(flushed[r]) - 1) :
                   Kept(SubSeq(accepted[r], flushed[r][k].seen + 1,
                               flushed[r][k + 1].seen)) # <<>>)
    /\ [][\A r \in RunIds :
            EmptyFlushStep(r) =>
                /\ sent' = sent
                /\ queue' = queue
                /\ chunk_buffer' = chunk_buffer
                /\ current_phase_index' = current_phase_index
                /\ last_push' = last_push]_vars

C17_Witness ==
    /\ pc[1] = "save"
    /\ task_counter[1] = 2
    /\ Len(flushed[1]) = 1
    /\ flushed[1][1].by = "flush_remaining"
    /\ flushed[1][1].phase_index = 2
    /\ Len(Outputs(sent[1])) = 1

\* C18: whenever the handler's mutex is free (a process, set_phase or flush
\* call is over) the buffer holds fewer than 4 fragments; inside a call it
\* holds at most 4, the 4th being the one that triggers the flush.
C18_BufferBelowThreshold ==
    \A r \in RunIds :
        /\ Len(chunk_buffer[r]) <= FlushCount
        /\ hlock[r] = Free => Len(chunk_buffer[r]) < FlushCount

C18_Witness ==
    /\ pc[1] = "kickoff"
    /\ hlock[1] = Free
    /\ chunk_buffer[1] = <<>>
    /\ \E k \in 1..Len(flushed[1]) :
          /\ flushed[1][k].by = "process"
          /\ flushed[1][k].seen >= FlushCount
          /\ Len(Kept(SubSeq(accepted[1], 1, flushed[1][k].seen))) = FlushCount
          /\ k = 1

Raws(acc) == [k \in 1..Len(acc) |-> acc[k].raw]
NonEmpty(ws) == SelectSeq(ws, LAMBDA t : t # <<>>)

\* C19: the forward to the real stream has been attempted, and has worked or
\* failed, before write looks the handler up; a failed forward never takes
\* the worker to its except clause; the handler of the writing thread is
\* called with every non-empty text written, in order, whatever came of the
\* forward; a write call that is over returned the length of its text.
C19_ForwardFailureSwallowed ==
    \A r \in RunIds :
        /\ pc[r] \in WritePcs => wfwd[r] \in {"ok", "failed"}
        /\ pc[r] # "error"
        /\ pc[r] \in {"wr_lookup", "proc_lock", "proc_body"} =>
               Raws(accepted[r]) \o <<wtext[r]>> = NonEmpty(written[r])
        /\ pc[r] \in {"proc_join", "proc_put", "kickoff"} =>
               Raws(accepted[r]) = NonEmpty(written[r])
        /\ pc[r] \notin WritePcs /\ written[r] # <<>> =>
               wresult[r] = Len(Last(written[r]))

C19_Witness ==
    /\ pc[1] = "kickoff"
    /\ Len(accepted[1]) = 2
    /\ accepted[1][1].fwd = "failed"
    /\ accepted[1][1].raw = <<Marker(1)>>
    /\ accepted[1][2].fwd = "ok"
    /\ wresult[1] = 1
    /\ Outputs(sent[1]) # <<>>

\* Where the worker is about to call unregister on interceptor i.
UnregisterAt(i) ==
    IF i = "stdout" THEN {"unreg_out", "fin_unreg_out"}
    ELSE {"unreg_err", "fin_unreg_err"}

FinalFlushes(r) == SelectSeq(flushed[r], LAMBDA f : f.by = "flush_remaining")

\* C20: an unregister call of a thread without an association changes no
\* handler table, handler or queue and goes on at once; one with an
\* association removes that association only and enters the handler's final
\* flush, so that the buffer is empty whenever an unregister call has returned.
C20_UnregisterFrame ==
    /\ [](\A r \in RunIds :
            /\ pc[r] \in {"unreg_err", "fin_unreg_err"} => chunk_buffer[r] = <<>>
            /\ ~Registered(r) /\ pc[r] \notin {"fr_lock", "fr_join", "fr_put"} =>
                   chunk_buffer[r] = <<>>
            /\ Len(FinalFlushes(r)) <= 1)
    /\ [][\A r \in RunIds : \A i \in Interceptors :
            pc[r] \in UnregisterAt(i) /\ pc'[r] # pc[r] =>
                IF handlers[i][r] = NoHandler
                THEN /\ pc'[r] \notin {"fr_lock", "fr_join", "fr_put"}
                     /\ handlers' = handlers
                     /\ queue' = queue
                     /\ sent' = sent
                     /\ handlerVars' = handlerVars
                     /\ flushed' = flushed
                ELSE /\ pc'[r] = "fr_lock"
                     /\ handlers' = [handlers EXCEPT ![i][r] = NoHandler]]_vars

C20_Witness ==
    /\ pc[1] = "put_done"
    /\ raised[1] = "no"
    /\ Len(FinalFlushes(1)) = 1
    /\ Last(sent[1]) = PipelineComplete(1)
    /\ ~Registered(1)

RunFiles ==
    {ArtifactFile(i) : i \in 0..(NumPhases - 1)} \cup {Manifest, ConversationLog}

\* C21: a run's queue holds pipeline_complete only when every phase's
\* artifact, the manifest and the conversation log are written and nothing
\* raised; a run in which a stage or a persistence step raised never
\* enqueues it.
C21_CompleteAfterPersistence ==
    \A r \in RunIds :
        /\ PipelineComplete(r) \in Events(sent[r]) =>
               RunFiles \subseteq saved[r] /\ raised[r] = "no"
        /\ raised[r] # "no" => PipelineComplete(r) \notin Events(sent[r])
        /\ pc[r] = "terminated" /\ raised[r] = "no" =>
               PipelineComplete(r) \in Events(sent[r])

C21_Witness ==
    /\ pc[1] = "terminated"
    /\ raised[1] = "convlog"
    /\ Manifest \in saved[1]
    /\ ConversationLog \notin saved[1]
    /\ ErrorEvent \in Events(sent[1])

Finished(r) ==
    /\ pc[r] = "terminated"
    /\ Done \in Events(sent[r])
    /\ r \notin active_runs

\* C22: every run start accepted reaches its done event and the removal of
\* its registry entry, whether or not a stream is ever opened for it, whether
\* or not its client goes away, and whatever the consumers of the other run
\* do: the worker waits for no consumer.
C22_WorkerNeverWaits ==
    \A r \in RunIds : (pc[r] # "none") ~> Finished(r)

C22_Witness ==
    /\ Finished(1)
    /\ Finished(2)
    /\ queue[1] = sent[1]
    /\ \A s \in StreamIds : srun[s] # 1
    /\ spc[1] = "closed"
    /\ srun[1] = 2
    /\ yielded[1] = <<PipelineStart(2)>>
    /\ Len(queue[2]) > 3


\* The number of invocations of the task callback of run r so far.
Invocations(r) == NumPhases + ExtraCallbacks - cbLeft[r]

\* C23: after k invocations of the task callback (none in progress) the
\* callback's counter and the handler's current phase index both equal k, also
\* when building or enqueuing a phase_complete event raised.
C23_CounterFollowsInvocations ==
    \A r \in RunIds :
        cpc[r] = "idle" =>
            /\ task_counter[r] = Invocations(r)
            /\ current_phase_index[r] = Invocations(r)


\* C24: every agent_output event enqueued on a run's queue carries the index
\* of a defined phase, a value in 0..N-1, also when it is flushed after the
\* last stage's callback or by the final flush at unregister.
C24_OutputIndexDefined ==
    \A r \in RunIds :
        \A i \in 1..Len(sent[r]) :
            IsOutput(sent[r][i]) => sent[r][i].phase_index \in 0..(NumPhases - 1)


\* C25: done is the last event a run's queue ever receives; when it is
\* enqueued the run's handler is registered with neither interceptor, its
\* buffer is empty, and every text the handler accepted has been emitted in an
\* agent_output event (each event carrying the tail of one flush).
C25_DoneIsLast ==
    /\ [](\A r \in RunIds :
            Done \in Events(sent[r]) =>
                /\ Last(sent[r]) = Done
                /\ Count(sent[r], Done) = 1
                /\ ~Registered(r)
                /\ chunk_buffer[r] = <<>>
                /\ FlushedText(flushed[r]) = CleanedText(accepted[r])
                /\ Len(Outputs(sent[r])) = Len(flushed[r])
                /\ \A k \in 1..Len(flushed[r]) :
                       Outputs(sent[r])[k].text
                           = LastN(flushed[r][k].combined, TailCap))
    /\ [][\A r \in RunIds :
            Done \in Events(sent[r]) =>
                /\ sent'[r] = sent[r]
                /\ accepted'[r] = accepted[r]
                /\ chunk_buffer'[r] = chunk_buffer[r]]_vars

C25_Witness ==
    /\ pc[1] = "pop"
    /\ Last(sent[1]) = Done
    /\ raised[1] = "kickoff"
    /\ Len(FinalFlushes(1)) = 1
    /\ Last(Outputs(sent[1])).text = Last(flushed[1]).combined
    /\ Last(flushed[1]).by = "flush_remaining"
    /\ Kept(accepted[1]) # <<>>


\* C26: every stream generator that found the run's queue in the registry
\* eventually stops (it yields done once the worker has put it), also when
\* several streams are open for the same run id.
C26_EveryStreamEnds ==
    \A s \in 1..MaxStreamsLive : (spc[s] = "gen") ~> (spc[s] = "closed")


\* No unregister call for the handler of run r is in progress on any thread.
NoUnregisterInProgress(r) ==
    /\ upc[r] = "idle"
    /\ pc[r] \notin {"fr_lock", "fr_join", "fr_put"}

\* C27: once the unregister calls for a thread have returned, the removed
\* handler receives no further process call and holds no unflushed text, also
\* when another thread made the calls while the thread was inside write
\* between the handler lookup and the call to process.
C27_NoProcessAfterUnregister ==
    \A r \in RunIds :
        (Launched(r) /\ pc[r] # "setup" /\ ~Registered(r)
            /\ NoUnregisterInProgress(r)) =>
            /\ ~InProcess(r)
            /\ chunk_buffer[r] = <<>>


\* The threads of the runs and the mutexes they take.
Threads == {<<k, r>> : k \in Callers, r \in RunIds}
NoLock == <<"none", 0>>
RouterLock(i) == <<"router", IF i = "stdout" THEN 1 ELSE 2>>
HandlerLock(h) == <<"handler", h>>
\* The thread that holds mutex l, or Free.
Holder(l) ==
    IF l[1] = "handler" THEN hlock[l[2]]
    ELSE LET v == rlock[IF l[2] = 1 THEN "stdout" ELSE "stderr"] IN
         IF v = 0 THEN Free
         ELSE IF v > 0 THEN <<"w", v>> ELSE <<"u", 0 - v>>
\* The mutex thread t is about to take (it waits while another holds it).
WaitsFor(t) ==
    LET r == t[2] IN
    IF t[1] = "w" THEN
        IF pc[r] = "wr_lookup" THEN RouterLock(cur[r])
        ELSE IF pc[r] \in {"reg_out"} \cup UnregisterAt("stdout")
        THEN RouterLock("stdout")
        ELSE IF pc[r] \in {"reg_err"} \cup UnregisterAt("stderr")
        THEN RouterLock("stderr")
        ELSE IF pc[r] \in {"proc_lock", "fr_lock"} THEN HandlerLock(whandler[r])
        ELSE NoLock
    ELSE IF t[1] = "cb" THEN
        IF cpc[r] = "sp_lock" THEN HandlerLock(r) ELSE NoLock
    ELSE IF upc[r] = "fr_lock" THEN HandlerLock(r) ELSE NoLock
Blocked(t) == WaitsFor(t) # NoLock /\ Holder(WaitsFor(t)) # Free
\* n threads in a row, from t on, each wait for a mutex the next one holds.
RECURSIVE StuckChain(_, _)
StuckChain(t, n) ==
    IF n = 0 THEN TRUE
    ELSE Blocked(t) /\ StuckChain(Holder(WaitsFor(t)), n - 1)
HoldsHandler(t) == \E h \in RunIds : hlock[h] = t
HoldsRouter(t) == \E i \in Interceptors : Holder(RouterLock(i)) = t

\* C28: no thread waits for a mutex in a cycle of waiting threads (a thread
\* that waits for a mutex it holds itself included); a thread that holds a
\* handler mutex takes no other mutex, one that holds a router mutex takes
\* only a handler mutex, and the worker holds neither when it takes the
\* registry mutex.
C28_NoDeadlock ==
    /\ \A t \in Threads : ~StuckChain(t, Cardinality(Threads))
    /\ \A t \in Threads :
        /\ HoldsHandler(t) => WaitsFor(t) = NoLock
        /\ HoldsRouter(t) => WaitsFor(t)[1] # "router"
    /\ \A r \in RunIds :
        pc[r] = "pop" => ~HoldsHandler(<<"w", r>>) /\ ~HoldsRouter(<<"w", r>>)

C28_Witness ==
    /\ Blocked(<<"w", 2>>)
    /\ Holder(WaitsFor(<<"w", 2>>)) = <<"w", 1>>
    /\ pc[2] = "wr_lookup"
    /\ pc[1] = "fr_put"
    /\ HoldsHandler(<<"w", 1>>)
    /\ task_counter[1] >= 1


\* The body has no requirement, an empty one, or one made of blanks only.
NoRequirement(data) ==
    \/ "requirement" \notin DOMAIN data
    \/ \A k \in 1..Len(data.requirement) : data.requirement[k] = " "
Answered(st) == {q \in Requests : responses[q].status = st}
\* Everything but the record of the answers.
SystemState ==
    <<active_runs, startable, removed, qVars, routerVars, handlerVars,
      flushVars, cbVars, wVars, inVars, fileVars, streamVars>>

\* C29: a start request with a missing, empty or blank requirement is
\* answered with the error and changes nothing: no run id is taken, no queue
\* or registry entry is made, no worker is launched. The runs that exist are
\* those of the requests that were accepted.
C29_RejectedStartChangesNothing ==
    /\ [](\A q \in Requests :
            /\ responses[q] # NoResponse =>
                   (responses[q].status = 400 <=> NoRequirement(responses[q].data))
            /\ responses[q].status = 400 => responses[q].run_id = UnknownRun)
    /\ [](Cardinality({r \in RunIds : pc[r] # "none"})
              = Cardinality(Answered(200)))
    /\ [][\A q \in Requests :
            (responses'[q] # responses[q] /\ responses'[q].status = 400) =>
                SystemState' = SystemState]_vars

C29_Witness ==
    /\ responses[1].status = 200
    /\ responses[1].data = [requirement |-> <<" ", "x", " ">>]
    /\ pc[1] = "kickoff"
    /\ pc[2] = "none"
    /\ active_runs = {1}
    /\ responses[2].status = 400
    /\ responses[2].data = [requirement |-> <<" ", " ">>]


\* C30: the review loop makes at least one and at most REVIEW_MAX_ITERATIONS
\* reviews and stops at the first one judged approved; a revision is asked
\* for only after a review that was not approved and not the last allowed, so
\* at most REVIEW_MAX_ITERATIONS - 1 times; the review that is saved is the
\* last one made and is a review of the final code.
C30_ReviewLoop ==
    /\ Len(reviews) <= REVIEW_MAX_ITERATIONS
    /\ Len(reviews) = iteration - (IF opc = "review" THEN 1 ELSE 0)
    /\ review_iterations = iteration
    /\ \A k \in 1..(Len(reviews) - 1) : ~_is_approved(reviews[k].text)
    /\ (reviews # <<>> /\ _is_approved(Last(reviews).text)) =>
           opc \in {"save_review", "saved"}
    /\ Len(revisions) <= REVIEW_MAX_ITERATIONS - 1
    /\ \A k \in 1..Len(revisions) :
           /\ revisions[k].round = k
           /\ revisions[k].round < REVIEW_MAX_ITERATIONS
           /\ revisions[k].review = reviews[k]
           /\ ~_is_approved(revisions[k].review.text)
    /\ opc \in {"save_review", "saved"} =>
           /\ Len(reviews) >= 1
           /\ _is_approved(Last(reviews).text)
                  \/ Len(reviews) = REVIEW_MAX_ITERATIONS
           /\ artifacts.review = Last(reviews)
           /\ artifacts.review.of = artifacts.code
    /\ opc = "saved" =>
           /\ out_files.review = Last(reviews)
           /\ out_files.review.of = out_files.code
           /\ out_files.code = artifacts.code
           /\ artifacts.code = Len(revisions) + 1

C30_Witness ==
    /\ opc = "saved"
    /\ Len(reviews) = REVIEW_MAX_ITERATIONS
    /\ Len(revisions) = REVIEW_MAX_ITERATIONS - 1
    /\ ~_is_approved(Last(reviews).text)
    /\ Last(reviews).text.approved
    /\ Last(reviews).text.needs_revision
    /\ out_files.review.of = REVIEW_MAX_ITERATIONS
    /\ Len(SelectSeq(reviews, LAMBDA v : v.text.score = 6)) >= 1

====
